---- MODULE Spec2Model ----
(***************************************************************************)
(* Model of the document chunking engine of python_example/src/chunking.py *)
(* (TextChunker, MarkdownChunker).  A Python str is a sequence of          *)
(* one-character strings; a Python dict is a function from its keys; an    *)
(* Optional value is a sequence of length 0 (None) or 1.                   *)
(***************************************************************************)
EXTENDS Integers, Sequences, FiniteSets, TLC

(***************************************************************************)
(* Bounds of the model.                                                    *)
(***************************************************************************)
\* longest input text, in characters
MaxLen == 3
\* largest configured chunk_size
MaxChunkSize == 3
\* largest configured chunk_overlap
MaxOverlap == 2
\* most lines of a markdown document
MaxLines == 2
\* most paragraphs of a text of paragraphs
MaxPieces == 3
\* largest chunk_size and chunk_overlap configured for a text of paragraphs
MaxPieceChunkSize == 4
MaxWindow == 3
\* most lines of a document of a MarkdownChunker
MaxDocLines == 4
\* most calls of chunk_text on one instance
MaxCalls == 3
\* most documents, and most metadata mappings, of a call of add_documents
MaxDocs == 2
\* most lines of a document of heading candidates
MaxHeadingLines == 3
\* most rows of the LanceDB table, and most texts of one add_documents call
MaxRows == 3
MaxTexts == 2
\* most texts of one embed_documents call
MaxEmbedTexts == 2

(***************************************************************************)
(* Characters and strings.                                                 *)
(***************************************************************************)
Chars == {"a", " ", "\n", ".", ",", "#"}

\* the characters str.strip() and the regex class \s remove
Whitespace == {" ", "\n"}

RECURSIVE StringsUpTo(_)
StringsUpTo(n) ==
    IF n = 0 THEN {<<>>}
    ELSE LET shorter == StringsUpTo(n - 1)
         IN  shorter \cup {Append(s, c) : s \in {x \in shorter : Len(x) = n - 1}, c \in Chars}

\* the lines of the markdown documents: body text, a level 1 and a level 2 heading
MarkdownLines == { <<"a">>, <<"#", " ", "a">>, <<"#", "#", " ", "a">> }

\* s[i:] for 0 <= i
DropFirst(s, i) == IF i >= Len(s) THEN <<>> ELSE SubSeq(s, i + 1, Len(s))

\* s[:k] for k >= 0
TakeFirst(s, k) == IF k >= Len(s) THEN s ELSE SubSeq(s, 1, k)

\* s.startswith(p)
StartsWith(s, p) == Len(p) <= Len(s) /\ SubSeq(s, 1, Len(p)) = p

\* str.split(sep) for a non-empty sep: the pieces between the non-overlapping
\* occurrences of sep, found left to right; s itself when sep does not occur
RECURSIVE SplitFrom(_, _, _)
SplitFrom(s, sep, piece) ==
    IF s = <<>> THEN <<piece>>
    ELSE IF StartsWith(s, sep)
         THEN <<piece>> \o SplitFrom(DropFirst(s, Len(sep)), sep, <<>>)
         ELSE SplitFrom(Tail(s), sep, Append(piece, Head(s)))

Split(s, sep) == SplitFrom(s, sep, <<>>)

RECURSIVE LStrip(_)
LStrip(s) == IF s # <<>> /\ Head(s) \in Whitespace THEN LStrip(Tail(s)) ELSE s

RECURSIVE RStrip(_)
RStrip(s) ==
    IF s # <<>> /\ s[Len(s)] \in Whitespace THEN RStrip(SubSeq(s, 1, Len(s) - 1)) ELSE s

\* str.strip()
Strip(s) == RStrip(LStrip(s))

\* sep.join(parts)
RECURSIVE Join(_, _)
Join(parts, sep) ==
    IF parts = <<>> THEN <<>>
    ELSE IF Len(parts) = 1 THEN parts[1]
    ELSE parts[1] \o sep \o Join(Tail(parts), sep)

\* the markdown documents of 1 to n lines
MarkdownDocuments(n) ==
    { Join(ls, <<"\n">>) : ls \in UNION { [1 .. k -> MarkdownLines] : k \in 1 .. n } }

\* the texts a caller passes to chunk_text: every string of up to MaxLen characters,
\* and the markdown documents of up to MaxLines lines
Texts == StringsUpTo(MaxLen) \cup MarkdownDocuments(MaxLines)

(***************************************************************************)
(* TextChunker.__init__                                                    *)
(***************************************************************************)
\* the hierarchy of separators, self.separators
separators == << <<"\n", "\n">>, <<"\n">>, <<".", " ">>, <<",", " ">>, <<" ">>, <<>> >>

\* the configurations a caller constructs a chunker with
ChunkSizes == -1 .. MaxChunkSize
ChunkOverlaps == -1 .. MaxOverlap
Separators == { <<"\n", "\n">>, <<"\n">>, <<" ">> }
Kinds == {"TextChunker", "MarkdownChunker"}

\* the defaults of chunk_size and chunk_overlap
DefaultChunkSize == 512
DefaultChunkOverlap == 50

VARIABLES
    kind,           \* the class of the chunker instance
    chunk_size,     \* self.chunk_size
    chunk_overlap,  \* self.chunk_overlap
    separator,      \* self.separator
    outcome,        \* "none" before the call, then "returned" or "raised"
    text,           \* the text argument of the call
    metadata,       \* the metadata argument of the call (Optional)
    chunks,         \* the list of Chunk objects the call returned
    heap,           \* the dict objects alive, by identity: the callers' and the chunks'
    refs,           \* the identities of the metadata objects of chunks
    history,        \* the calls made on the instance so far
    documents,      \* add_documents: the documents argument
    metadatas,      \* add_documents: the metadatas argument (Optional)
    document_type,  \* add_documents: the document_type argument
    chunker_calls,  \* add_documents: the chunk_text calls it made, in order
    store_calls,    \* add_documents: the vector_store.add_documents calls it made
    added,          \* add_documents: the value it returned (Optional)
    db,             \* LanceDB: the table of the collection in the database (Optional)
    table,          \* LanceDBVectorStore: self.table
    store_call,     \* LanceDBVectorStore: the last call made on the store
    model,          \* OllamaEmbeddings: self.model
    cache,          \* OllamaEmbeddings: the files of cache_dir, by cache key
    provided,       \* the embeddings the provider has answered with, by prompt
    embed_call      \* OllamaEmbeddings: the last call made on the embedder

\* the variables of the chunker instance, of the object identities, of the
\* pipeline, of the vector store and of the embedder
configVars == <<kind, chunk_size, chunk_overlap, separator>>
objectVars == <<heap, refs, history>>
pipelineVars == <<documents, metadatas, document_type, chunker_calls, store_calls, added>>
storeVars == <<db, table, store_call>>
embedVars == <<model, cache, provided, embed_call>>

vars ==
    <<kind, chunk_size, chunk_overlap, separator, outcome, text, metadata, chunks,
      heap, refs, history,
      documents, metadatas, document_type, chunker_calls, store_calls, added,
      db, table, store_call, model, cache, provided, embed_call>>

(***************************************************************************)
(* Python slicing and dict helpers.                                        *)
(***************************************************************************)
\* the index a slice bound b denotes in a sequence of length n
SliceIndex(b, n) == IF b < 0 THEN (IF n + b < 0 THEN 0 ELSE n + b) ELSE (IF b > n THEN n ELSE b)

\* s[start:]
SliceFrom(s, start) == DropFirst(s, SliceIndex(start, Len(s)))

\* s[:stop]
SliceTo(s, stop) == TakeFirst(s, SliceIndex(stop, Len(s)))

\* the empty dict
EmptyDict == [k \in {} |-> 0]

\* {**a, **b}: the keys of both, b's value where both have the key
Merge(a, b) == [k \in DOMAIN a \cup DOMAIN b |-> IF k \in DOMAIN b THEN b[k] ELSE a[k]]

\* metadata or {}
OrEmptyDict(m) == IF m = <<>> THEN EmptyDict ELSE m[1]

\* what an operation that may raise gives back
Returned(v) == [raised |-> FALSE, value |-> v]
Raised == [raised |-> TRUE, value |-> <<>>]

(***************************************************************************)
(* TextChunker._split_large_text                                           *)
(***************************************************************************)
\* the greedy accumulation of the parts under one separator, appended to the
\* chunks collected so far
RECURSIVE AccumulateParts(_, _, _, _)
AccumulateParts(parts, sep, current, acc) ==
    IF parts = <<>>
    THEN IF current # <<>> THEN Append(acc, current) ELSE acc
    ELSE LET part == Head(parts)
         IN  IF Len(current) + Len(part) + Len(sep) <= chunk_size
             THEN AccumulateParts(Tail(parts), sep,
                                  current \o (IF current # <<>> THEN sep ELSE <<>>) \o part, acc)
             ELSE AccumulateParts(Tail(parts), sep, part,
                                  IF current # <<>> THEN Append(acc, current) ELSE acc)

\* the loop over self.separators[1:]: the list chunks is created once, before
\* the loop, and every separator tried appends to it
RECURSIVE TrySeparators(_, _, _)
TrySeparators(t, seps, acc) ==
    IF seps = <<>> THEN [returned |-> FALSE, chunks |-> acc]
    ELSE LET sep == Head(seps)
         IN  IF sep = <<>> THEN TrySeparators(t, Tail(seps), acc)
             ELSE LET acc2 == AccumulateParts(Split(t, sep), sep, <<>>, acc)
                  IN  IF \A i \in 1 .. Len(acc2) : Len(acc2[i]) <= chunk_size
                      THEN [returned |-> TRUE, chunks |-> acc2]
                      ELSE TrySeparators(t, Tail(seps), acc2)

\* the separators the loop over self.separators[1:] splits t by, in the order it
\* takes them, until it returns or runs out of separators
RECURSIVE SeparatorsTried(_, _, _, _)
SeparatorsTried(t, seps, acc, tried) ==
    IF seps = <<>> THEN tried
    ELSE LET sep == Head(seps)
         IN  IF sep = <<>> THEN SeparatorsTried(t, Tail(seps), acc, tried)
             ELSE LET acc2 == AccumulateParts(Split(t, sep), sep, <<>>, acc)
                  IN  IF \A i \in 1 .. Len(acc2) : Len(acc2[i]) <= chunk_size
                      THEN Append(tried, sep)
                      ELSE SeparatorsTried(t, Tail(seps), acc2, Append(tried, sep))

\* [t[i:i + chunk_size] for i in range(i, len(t), chunk_size)], chunk_size > 0
RECURSIVE CharSlices(_, _)
CharSlices(t, i) ==
    IF i >= Len(t) THEN <<>>
    ELSE <<TakeFirst(DropFirst(t, i), chunk_size)>> \o CharSlices(t, i + chunk_size)

\* LastResort with the slices taken at a stride of chunk_size // 2, as
\* range(0, len(text), self.chunk_size // 2) would
LastResort_HalfStride(t, acc) ==
    IF chunk_size \div 2 = 0 THEN Raised
    ELSE IF chunk_size < 0 THEN Returned(acc)
    ELSE Returned(acc \o CharSlices(t, 0))

\* the last resort: range() raises ValueError for a step of 0 and is empty for
\* a negative step
LastResort(t, acc) ==
    IF chunk_size = 0 THEN Raised
    ELSE IF chunk_size < 0 THEN Returned(acc)
    ELSE Returned(acc \o CharSlices(t, 0))

split_large_text(t) ==
    LET tried == TrySeparators(t, Tail(separators), <<>>)
    IN  IF tried.returned THEN Returned(tried.chunks) ELSE LastResort(t, tried.chunks)

(***************************************************************************)
(* TextChunker._apply_overlap                                              *)
(***************************************************************************)
\* OverlappedChunk with the whole of chunk_overlap taken on each side of a middle
\* chunk, as prev_chunk[-self.chunk_overlap:] and next_chunk[:self.chunk_overlap]
\* would
OverlappedChunk_FullWindows(cs, i) ==
    IF i = 1
    THEN IF i + 1 <= Len(cs)
         THEN cs[i] \o <<" ">> \o SliceTo(cs[i + 1], chunk_overlap)
         ELSE cs[i]
    ELSE IF i = Len(cs)
    THEN SliceFrom(cs[i - 1], -chunk_overlap) \o <<" ">> \o cs[i]
    ELSE SliceFrom(cs[i - 1], -chunk_overlap) \o <<" ">> \o cs[i] \o <<" ">>
         \o SliceTo(cs[i + 1], chunk_overlap)

\* OverlappedChunk with the last chunk's window taken from the chunk itself, as
\* chunk[-self.chunk_overlap:] would
OverlappedChunk_OwnTail(cs, i) ==
    IF i = 1
    THEN IF i + 1 <= Len(cs)
         THEN cs[i] \o <<" ">> \o SliceTo(cs[i + 1], chunk_overlap)
         ELSE cs[i]
    ELSE IF i = Len(cs)
    THEN SliceFrom(cs[i], -chunk_overlap) \o <<" ">> \o cs[i]
    ELSE SliceFrom(cs[i - 1], (-chunk_overlap) \div 2) \o <<" ">> \o cs[i] \o <<" ">>
         \o SliceTo(cs[i + 1], chunk_overlap \div 2)

\* OverlappedChunk with the previous window of a middle chunk written
\* prev_chunk[-(self.chunk_overlap // 2):], the division done before the sign
OverlappedChunk_DivideFirst(cs, i) ==
    IF i = 1
    THEN IF i + 1 <= Len(cs)
         THEN cs[i] \o <<" ">> \o SliceTo(cs[i + 1], chunk_overlap)
         ELSE cs[i]
    ELSE IF i = Len(cs)
    THEN SliceFrom(cs[i - 1], -chunk_overlap) \o <<" ">> \o cs[i]
    ELSE SliceFrom(cs[i - 1], -(chunk_overlap \div 2)) \o <<" ">> \o cs[i] \o <<" ">>
         \o SliceTo(cs[i + 1], chunk_overlap \div 2)

OverlappedChunk(cs, i) ==
    IF i = 1
    THEN IF i + 1 <= Len(cs)
         THEN cs[i] \o <<" ">> \o SliceTo(cs[i + 1], chunk_overlap)
         ELSE cs[i]
    ELSE IF i = Len(cs)
    THEN SliceFrom(cs[i - 1], -chunk_overlap) \o <<" ">> \o cs[i]
    ELSE SliceFrom(cs[i - 1], (-chunk_overlap) \div 2) \o <<" ">> \o cs[i] \o <<" ">>
         \o SliceTo(cs[i + 1], chunk_overlap \div 2)

\* apply_overlap with every overlapped chunk written back into the list it reads
\* its neighbours from, as chunks[i] = ... in the loop would
apply_overlap_InPlace(cs) ==
    IF Len(cs) <= 1 THEN cs
    ELSE LET upto[i \in 0 .. Len(cs)] ==
                 IF i = 0 THEN cs
                 ELSE [upto[i - 1] EXCEPT ![i] = OverlappedChunk(upto[i - 1], i)]
         IN  upto[Len(cs)]

apply_overlap(cs) ==
    IF Len(cs) <= 1 THEN cs ELSE [i \in 1 .. Len(cs) |-> OverlappedChunk(cs, i)]

(***************************************************************************)
(* TextChunker._recursive_chunk                                            *)
(***************************************************************************)
\* ChunkSplits with the budget test written >= instead of >, so that a buffer that
\* would exactly fill chunk_size is flushed
RECURSIVE ChunkSplits_StrictBudget(_, _, _)
ChunkSplits_StrictBudget(splits, current_chunk, acc) ==
    LET saved == IF current_chunk # <<>> THEN Append(acc, Strip(current_chunk)) ELSE acc
    IN  IF splits = <<>> THEN Returned(saved)
        ELSE LET split == Head(splits)
             IN  IF Len(current_chunk) + Len(split) + Len(separator) >= chunk_size
                 THEN IF Len(split) > chunk_size
                      THEN LET sub_chunks == split_large_text(split)
                           IN  IF sub_chunks.raised THEN Raised
                               ELSE ChunkSplits_StrictBudget(Tail(splits), <<>>,
                                                             saved \o sub_chunks.value)
                      ELSE ChunkSplits_StrictBudget(Tail(splits), split, saved)
                 ELSE ChunkSplits_StrictBudget(Tail(splits),
                                               IF current_chunk # <<>>
                                               THEN current_chunk \o separator \o split
                                               ELSE split,
                                               acc)

\* the loop over the splits and the flush of the last chunk
RECURSIVE ChunkSplits(_, _, _)
ChunkSplits(splits, current_chunk, acc) ==
    LET saved == IF current_chunk # <<>> THEN Append(acc, Strip(current_chunk)) ELSE acc
    IN  IF splits = <<>> THEN Returned(saved)
        ELSE LET split == Head(splits)
             IN  IF Len(current_chunk) + Len(split) + Len(separator) > chunk_size
                 THEN IF Len(split) > chunk_size
                      THEN LET sub_chunks == split_large_text(split)
                           IN  IF sub_chunks.raised THEN Raised
                               ELSE ChunkSplits(Tail(splits), <<>>, saved \o sub_chunks.value)
                      ELSE ChunkSplits(Tail(splits), split, saved)
                 ELSE ChunkSplits(Tail(splits),
                                  IF current_chunk # <<>>
                                  THEN current_chunk \o separator \o split
                                  ELSE split,
                                  acc)

\* the chunks before the overlap is applied
PreOverlapChunks(t) == ChunkSplits(Split(t, separator), <<>>, <<>>)

\* recursive_chunk with the overlap applied whatever chunk_overlap is, as the
\* code without the test of line 131 would
recursive_chunk_AlwaysOverlap(t) ==
    LET pre == PreOverlapChunks(t)
    IN  IF pre.raised THEN Raised
        ELSE Returned(apply_overlap(pre.value))

recursive_chunk(t) ==
    LET pre == PreOverlapChunks(t)
    IN  IF pre.raised THEN Raised
        ELSE IF chunk_overlap > 0 THEN Returned(apply_overlap(pre.value))
        ELSE pre

(***************************************************************************)
(* TextChunker.chunk_text                                                  *)
(***************************************************************************)
Chunk(t, m, id) == [text |-> t, metadata |-> m, chunk_id |-> id, source_doc_id |-> "None"]

\* ChunkObject with the caller's metadata unpacked last, as
\* {"chunk_index": i, ..., **metadata} would
ChunkObject_CallerWins(cs, i, m) ==
    Chunk(cs[i + 1],
          Merge([chunk_index |-> i, total_chunks |-> Len(cs), chunk_size |-> Len(cs[i + 1])], m),
          i)

\* ChunkObject with the caller's metadata left out, as
\* metadata={"chunk_index": i, ...} would
ChunkObject_NoCallerMetadata(cs, i, m) ==
    Chunk(cs[i + 1],
          [chunk_index |-> i, total_chunks |-> Len(cs), chunk_size |-> Len(cs[i + 1])],
          i)

\* the Chunk object built for the i-th (0-based) of the chunk texts cs
ChunkObject(cs, i, m) ==
    Chunk(cs[i + 1],
          Merge(m, [chunk_index |-> i, total_chunks |-> Len(cs), chunk_size |-> Len(cs[i + 1])]),
          i)

TextChunker_chunk_text(t, m) ==
    IF t = <<>> THEN Returned(<<>>)
    ELSE LET r == recursive_chunk(t)
         IN  IF r.raised THEN Raised
             ELSE Returned([i \in 1 .. Len(r.value) |-> ChunkObject(r.value, i - 1, OrEmptyDict(m))])

(***************************************************************************)
(* MarkdownChunker.chunk_text                                              *)
(***************************************************************************)
\* the number of "#" a line starts with
RECURSIVE LeadingHashes(_)
LeadingHashes(line) ==
    IF line # <<>> /\ Head(line) = "#" THEN 1 + LeadingHashes(Tail(line)) ELSE 0

\* HeaderMatch with up to seven markers, as r'^(#{1,7})\s+(.*)$' would match
HeaderMatch_SevenMarkers(line) ==
    LET n == LeadingHashes(line)
    IN  n >= 1 /\ n <= 7 /\ Len(line) > n /\ line[n + 1] \in Whitespace

\* re.match(r'^(#{1,6})\s+(.*)$', line): a line holds no line break, so the
\* pattern matches exactly when 1 to 6 "#" are followed by whitespace
HeaderMatch(line) ==
    LET n == LeadingHashes(line)
    IN  n >= 1 /\ n <= 6 /\ Len(line) > n /\ line[n + 1] \in Whitespace

\* len(header_match.group(1))
HeaderLevel(line) == LeadingHashes(line)

\* header_match.group(2): what follows the markers and all whitespace after them
HeaderText(line) == LStrip(DropFirst(line, LeadingHashes(line)))

Section(header, level, content) == [header |-> header, level |-> level, content |-> content]

\* ScanLines with a section started empty at its heading, as 'content': [] in
\* place of 'content': [line] would
RECURSIVE ScanLines_HeadingDropped(_, _, _)
ScanLines_HeadingDropped(lines, current_section, sections) ==
    LET saved == IF current_section.content # <<>>
                 THEN Append(sections, current_section)
                 ELSE sections
    IN  IF lines = <<>> THEN saved
        ELSE LET line == Head(lines)
             IN  IF HeaderMatch(line)
                 THEN ScanLines_HeadingDropped(Tail(lines),
                                               Section(HeaderText(line), HeaderLevel(line), <<>>),
                                               saved)
                 ELSE ScanLines_HeadingDropped(Tail(lines),
                                               [current_section EXCEPT !.content = Append(@, line)],
                                               sections)

\* the loop over the lines and the save of the last section
RECURSIVE ScanLines(_, _, _)
ScanLines(lines, current_section, sections) ==
    LET saved == IF current_section.content # <<>>
                 THEN Append(sections, current_section)
                 ELSE sections
    IN  IF lines = <<>> THEN saved
        ELSE LET line == Head(lines)
             IN  IF HeaderMatch(line)
                 THEN ScanLines(Tail(lines),
                                Section(HeaderText(line), HeaderLevel(line), <<line>>),
                                saved)
                 ELSE ScanLines(Tail(lines),
                                [current_section EXCEPT !.content = Append(@, line)],
                                sections)

Sections(t) == ScanLines(Split(t, <<"\n">>), Section(<<>>, 0, <<>>), <<>>)

\* SectionMetadata with the sections numbered from 1, as enumerate(sections, 1)
\* would
SectionMetadata_OneBased(m, section, i) ==
    Merge(m, [section_header |-> section.header,
              section_level |-> section.level,
              section_index |-> i + 1])

SectionMetadata(m, section, i) ==
    Merge(m, [section_header |-> section.header,
              section_level |-> section.level,
              section_index |-> i])

\* ConvertSections with the caller's metadata, not the section's, handed to the
\* parent chunker, as super().chunk_text(section_text, metadata) would
RECURSIVE ConvertSections_CallerMetadata(_, _, _, _)
ConvertSections_CallerMetadata(sections, i, m, acc) ==
    IF i >= Len(sections) THEN Returned(acc)
    ELSE LET section == sections[i + 1]
             section_text == Join(section.content, <<"\n">>)
             section_metadata == SectionMetadata(m, section, i)
         IN  IF Len(section_text) > chunk_size
             THEN LET sub_chunks == TextChunker_chunk_text(section_text, <<m>>)
                  IN  IF sub_chunks.raised THEN Raised
                      ELSE ConvertSections_CallerMetadata(sections, i + 1, m,
                                                          acc \o sub_chunks.value)
             ELSE ConvertSections_CallerMetadata(sections, i + 1, m,
                                                 Append(acc, Chunk(section_text, section_metadata,
                                                                   Len(acc))))

\* the loop that converts the sections (from the i-th, 0-based) to chunks
RECURSIVE ConvertSections(_, _, _, _)
ConvertSections(sections, i, m, acc) ==
    IF i >= Len(sections) THEN Returned(acc)
    ELSE LET section == sections[i + 1]
             section_text == Join(section.content, <<"\n">>)
             section_metadata == SectionMetadata(m, section, i)
         IN  IF Len(section_text) > chunk_size
             THEN LET sub_chunks == TextChunker_chunk_text(section_text, <<section_metadata>>)
                  IN  IF sub_chunks.raised THEN Raised
                      ELSE ConvertSections(sections, i + 1, m, acc \o sub_chunks.value)
             ELSE ConvertSections(sections, i + 1, m,
                                  Append(acc, Chunk(section_text, section_metadata, Len(acc))))

MarkdownChunker_chunk_text(t, m) == ConvertSections(Sections(t), 0, OrEmptyDict(m), <<>>)

(***************************************************************************)
(* The callers' inputs.                                                    *)
(***************************************************************************)
\* the metadata mappings a caller passes: None, {}, a key of its own, and keys
\* named like the ones the chunkers set
Metadatas ==
    { <<>>,
      <<EmptyDict>>,
      <<[source |-> "doc"]>>,
      <<[source |-> "doc", chunk_index |-> 7, total_chunks |-> 9, chunk_size |-> 99]>> }

(***************************************************************************)
(* The state machine: a chunker is constructed, then chunk_text is called  *)
(* on it once.                                                             *)
(***************************************************************************)
\* no object identity is followed
NoObjects == heap = <<>> /\ refs = <<>> /\ history = <<>>

\* there is no pipeline
NoPipeline ==
    /\ documents = <<>>
    /\ metadatas = <<>>
    /\ document_type = "text"
    /\ chunker_calls = <<>>
    /\ store_calls = <<>>
    /\ added = <<>>

\* there is no vector store
NoStore == db = <<>> /\ table = "None" /\ store_call = <<>>

\* there is no embedder
NoEmbeddings == model = <<>> /\ cache = <<>> /\ provided = {} /\ embed_call = <<>>

Init ==
    /\ kind \in Kinds
    /\ chunk_size \in ChunkSizes
    /\ chunk_overlap \in ChunkOverlaps
    /\ separator \in Separators
    /\ outcome = "none"
    /\ text = <<>>
    /\ metadata = <<>>
    /\ chunks = <<>>
    /\ NoObjects
    /\ NoPipeline
    /\ NoStore
    /\ NoEmbeddings

\* one call of chunk_text on the instance: it returns a list or raises
Call(result, t, m) ==
    /\ text' = t
    /\ metadata' = m
    /\ outcome' = IF result.raised THEN "raised" ELSE "returned"
    /\ chunks' = result.value
    /\ UNCHANGED <<kind, chunk_size, chunk_overlap, separator>>
    /\ UNCHANGED <<objectVars, pipelineVars, storeVars, embedVars>>

TextChunkerChunkText ==
    /\ kind = "TextChunker"
    /\ outcome = "none"
    /\ \E t \in Texts, m \in Metadatas : Call(TextChunker_chunk_text(t, m), t, m)

MarkdownChunkerChunkText ==
    /\ kind = "MarkdownChunker"
    /\ outcome = "none"
    /\ \E t \in Texts, m \in Metadatas : Call(MarkdownChunker_chunk_text(t, m), t, m)

Next == TextChunkerChunkText \/ MarkdownChunkerChunkText

Spec == Init /\ [][Next]_vars

(***************************************************************************)
(* Properties.                                                             *)
(***************************************************************************)
\* the configuration the documentation asks for
ValidConfig == chunk_size >= 1 /\ chunk_overlap >= 0 /\ chunk_overlap < chunk_size

\* a call of chunk_text has returned a list
HasReturned == outcome = "returned"

\* no returned chunk is blank
NoBlankChunk == \A i \in 1 .. Len(chunks) : Strip(chunks[i].text) # <<>>

\* the keys of the i-th returned chunk's metadata
MetadataKeys(i) == DOMAIN chunks[i].metadata

\* ceil(n / w), w > 0
CeilDiv(n, w) == (n + w - 1) \div w

\* the consecutive slices of width w of t
FixedWidthSlices(t, w) ==
    [i \in 1 .. CeilDiv(Len(t), w) |->
        SubSeq(t, (i - 1) * w + 1, IF i * w < Len(t) THEN i * w ELSE Len(t))]

\* t holds neither whitespace nor punctuation
IsSingleToken(t) == t # <<>> /\ \A i \in 1 .. Len(t) : t[i] = "a"

\* C1: with overlap disabled and chunk_size >= 1, every chunk TextChunker.chunk_text
\* returns is at most chunk_size characters long, the chunks of the oversized-part
\* fallback included.
C1_SizeBound ==
    (kind = "TextChunker" /\ HasReturned /\ chunk_size >= 1 /\ chunk_overlap = 0)
        => \A i \in 1 .. Len(chunks) : Len(chunks[i].text) <= chunk_size

C3_SingleTokenSlices ==
    (kind = "TextChunker" /\ HasReturned /\ chunk_size >= 1 /\ chunk_overlap = 0
        /\ IsSingleToken(text) /\ Len(text) > chunk_size)
        => /\ Len(chunks) = CeilDiv(Len(text), chunk_size)
           /\ \A i \in 1 .. Len(chunks) :
                 chunks[i].text = FixedWidthSlices(text, chunk_size)[i]

\* C4: chunk_text of the empty string returns the empty chunk sequence, for
\* TextChunker and for MarkdownChunker.
C4_EmptyInputEmptyOutput ==
    (ValidConfig /\ outcome # "none" /\ text = <<>>) => (HasReturned /\ chunks = <<>>)

\* C5: every chunk either chunker emits has a text that is non-empty after
\* trimming surrounding whitespace.
C5_NoBlankChunk ==
    (ValidConfig /\ HasReturned)
        => \A i \in 1 .. Len(chunks) : Strip(chunks[i].text) # <<>>

\* C6: a configuration with chunk_size <= 0 or chunk_overlap >= chunk_size is
\* reported by an error; no call under it (stated for the calls on a non-empty
\* text) returns a chunk sequence.
C6_InvalidConfigRaises ==
    ((chunk_size <= 0 \/ chunk_overlap >= chunk_size) /\ outcome # "none" /\ text # <<>>)
        => outcome = "raised"

\* C7: the i-th (0-based) of the n chunks one call of TextChunker.chunk_text returns
\* has chunk_id = i, metadata chunk_index = i and metadata total_chunks = n, also
\* when the caller's metadata holds keys of these names.
C7_ContiguousIndices ==
    (kind = "TextChunker" /\ HasReturned)
        => \A i \in 1 .. Len(chunks) :
              /\ chunks[i].chunk_id = i - 1
              /\ chunks[i].metadata["chunk_index"] = i - 1
              /\ chunks[i].metadata["total_chunks"] = Len(chunks)

\* C7 witness: TextChunker.chunk_text has returned several chunks for a caller whose
\* metadata holds chunk_index and total_chunks itself.
C7_Witness ==
    /\ kind = "TextChunker"
    /\ HasReturned
    /\ Len(chunks) >= 2
    /\ metadata # <<>>
    /\ {"chunk_index", "total_chunks"} \subseteq DOMAIN metadata[1]

\* C8: the chunk at position j (0-based) of the list MarkdownChunker.chunk_text
\* returns has chunk_id = j (stated for the calls that return no blank chunk).
C8_GlobalChunkIds ==
    (kind = "MarkdownChunker" /\ ValidConfig /\ HasReturned /\ NoBlankChunk)
        => \A j \in 1 .. Len(chunks) : chunks[j].chunk_id = j - 1

\* C9: the metadata of every chunk either chunker emits holds the keys chunk_index,
\* total_chunks and chunk_size (stated for the calls that return no blank chunk).
C9_MetadataKeys ==
    (ValidConfig /\ HasReturned /\ NoBlankChunk)
        => \A i \in 1 .. Len(chunks) :
              {"chunk_index", "total_chunks", "chunk_size"} \subseteq MetadataKeys(i)

\* C10: whenever a chunk's metadata holds chunk_size, its value is the length of
\* the chunk's emitted text (stated for the calls that return no blank chunk).
C10_ChunkSizeIsLength ==
    (ValidConfig /\ HasReturned /\ NoBlankChunk)
        => \A i \in 1 .. Len(chunks) :
              "chunk_size" \in MetadataKeys(i)
                  => chunks[i].metadata["chunk_size"] = Len(chunks[i].text)

\* the characters of the separator hierarchy
SeparatorChars == Whitespace \cup {".", ","}

IsContentChar(c) == c \notin SeparatorChars

\* s without the characters a separator is made of
Content(s) == SelectSeq(s, IsContentChar)

\* the texts of the returned chunks from the i-th on, concatenated
RECURSIVE ConcatTexts(_)
ConcatTexts(i) == IF i > Len(chunks) THEN <<>> ELSE chunks[i].text \o ConcatTexts(i + 1)

\* the texts of the returned chunks from the i-th on occur in t, one after the
\* other, from position from on
RECURSIVE OccurInOrder(_, _, _)
OccurInOrder(i, t, from) ==
    IF i > Len(chunks) THEN TRUE
    ELSE LET c == chunks[i].text
         IN  \E p \in from .. (Len(t) - Len(c) + 1) :
                 /\ SubSeq(t, p, p + Len(c) - 1) = c
                 /\ OccurInOrder(i + 1, t, p + Len(c))

\* C11: with overlap disabled, the chunks TextChunker.chunk_text returns lose and
\* duplicate nothing: apart from the characters separators are made of, the chunk
\* texts concatenated in order are the input.
C11_NoLossNoDuplication ==
    (kind = "TextChunker" /\ ValidConfig /\ chunk_overlap = 0 /\ HasReturned)
        => Content(ConcatTexts(1)) = Content(text)

\* C12: with overlap disabled, the chunk texts TextChunker.chunk_text returns occur
\* in the input at strictly increasing, non-overlapping positions (stated for the
\* calls that return no blank chunk).
C12_SourceOrder ==
    (kind = "TextChunker" /\ ValidConfig /\ chunk_overlap = 0 /\ HasReturned
        /\ NoBlankChunk)
        => OccurInOrder(1, text, 1)

NotBlank(t) == \E i \in 1 .. Len(t) : t[i] \notin Whitespace

CallerMetadata == OrEmptyDict(metadata)

\* C18, as claimed: every key/value pair of the caller's metadata is in the
\* metadata of every returned chunk, whatever the key is named.
C18_MetadataPassthrough ==
    (ValidConfig /\ HasReturned)
        => \A i \in 1 .. Len(chunks) : \A k \in DOMAIN CallerMetadata :
              k \in MetadataKeys(i) /\ chunks[i].metadata[k] = CallerMetadata[k]

\* the keys the chunkers set themselves
ChunkerKeys ==
    {"chunk_index", "total_chunks", "chunk_size",
     "section_header", "section_level", "section_index"}

\* C18, amended: every key/value pair of the caller's metadata whose key is not one
\* the chunkers set themselves is in the metadata of every returned chunk.
C18_MetadataPassthrough_Amended ==
    HasReturned
        => \A i \in 1 .. Len(chunks) : \A k \in DOMAIN CallerMetadata \ ChunkerKeys :
              k \in MetadataKeys(i) /\ chunks[i].metadata[k] = CallerMetadata[k]

\* C18 witness: a call with a key of the caller's own and keys named like the
\* chunker's has returned several chunks.
C18_Witness ==
    /\ HasReturned
    /\ Len(chunks) >= 2
    /\ {"source", "chunk_size"} \subseteq DOMAIN CallerMetadata

\* the greedy accumulation of t under one separator alone
GreedyAccumulation(t, sep) == AccumulateParts(Split(t, sep), sep, <<>>, <<>>)

\* every piece of the greedy accumulation of t under sep is within chunk_size
Qualifies(t, sep) ==
    LET pieces == GreedyAccumulation(t, sep)
    IN  \A i \in 1 .. Len(pieces) : Len(pieces[i]) <= chunk_size

\* line break, sentence, clause, word
FinerSeparators == << <<"\n">>, <<".", " ">>, <<",", " ">>, <<" ">> >>

\* what the fallback is to return for the part t: the greedy accumulation under
\* the first separator that qualifies, the fixed-width slices if none does
ExpectedFallback(t) ==
    IF \E k \in 1 .. Len(FinerSeparators) : Qualifies(t, FinerSeparators[k])
    THEN LET k == CHOOSE k \in 1 .. Len(FinerSeparators) :
                      /\ Qualifies(t, FinerSeparators[k])
                      /\ \A j \in 1 .. (k - 1) : ~Qualifies(t, FinerSeparators[j])
         IN  GreedyAccumulation(t, FinerSeparators[k])
    ELSE FixedWidthSlices(t, chunk_size)

\* the text of the call is one part, longer than chunk_size, of a TextChunker with
\* the default separator and no overlap: the call returns what the fallback
\* returns for the text
IsOversizedPart ==
    /\ kind = "TextChunker"
    /\ ValidConfig
    /\ chunk_overlap = 0
    /\ separator = <<"\n", "\n">>
    /\ Len(Split(text, separator)) = 1
    /\ Len(text) > chunk_size

\* C21: for a part longer than chunk_size the fallback returns exactly the greedy
\* accumulation under the first of line break, sentence, clause and word whose
\* pieces are all within chunk_size, with no piece of a rejected separator, and the
\* fixed-width character slices of the part only if no separator qualifies.
C21_FallbackFirstQualifying ==
    (IsOversizedPart /\ HasReturned)
        => [i \in 1 .. Len(chunks) |-> chunks[i].text] = ExpectedFallback(text)

\* a separator the fallback is to try: one of the hierarchy that is neither the
\* configured primary separator nor the empty string
IsFallbackSeparator(sep) == sep # separator /\ sep # <<>>

\* a is the beginning of b
IsPrefix(a, b) == Len(a) <= Len(b) /\ SubSeq(b, 1, Len(a)) = a

\* C22: whatever the configured primary separator is, the fallback for a part
\* longer than chunk_size tries the separators of the hierarchy other than the
\* primary, coarse to fine, until one qualifies - all of them if none does - and
\* never the primary again.
C22_FallbackSkipsPrimary ==
    (kind = "TextChunker" /\ ValidConfig /\ HasReturned)
        => LET parts == Split(text, separator)
               expected == SelectSeq(separators, IsFallbackSeparator)
           IN  \A p \in 1 .. Len(parts) :
                   Len(parts[p]) > chunk_size
                       => LET tried == SeparatorsTried(parts[p], Tail(separators), <<>>, <<>>)
                          IN  /\ IsPrefix(tried, expected)
                              /\ ~TrySeparators(parts[p], Tail(separators), <<>>).returned
                                     => tried = expected

(***************************************************************************)
(* The overlap windower: a TextChunker with the default separator is       *)
(* called on a text of paragraphs.                                         *)
(***************************************************************************)
AAAA == <<"A", "A", "A", "A">>
BBBB == <<"B", "B", "B", "B">>
CCCC == <<"C", "C", "C", "C">>

\* the paragraphs
PieceTexts == { AAAA, BBBB, CCCC, <<"p", "q", "r", "s">>, <<"x">> }

\* the default of TextChunker.__init__'s separator
DefaultSeparator == <<"\n", "\n">>

\* the texts of up to n paragraphs
PiecedTexts(n) ==
    { Join(ps, DefaultSeparator) : ps \in UNION { [1 .. k -> PieceTexts] : k \in 0 .. n } }

InitOverlap ==
    /\ kind = "TextChunker"
    /\ chunk_size \in 1 .. MaxPieceChunkSize
    /\ chunk_overlap \in -1 .. MaxWindow
    /\ separator = DefaultSeparator
    /\ outcome = "none"
    /\ text \in PiecedTexts(MaxPieces)
    /\ metadata = <<>>
    /\ chunks = <<>>
    /\ NoObjects
    /\ NoPipeline
    /\ NoStore
    /\ NoEmbeddings

\* chunk_text is called with the text and the metadata of the state
TextChunkerChunkGivenText ==
    /\ kind = "TextChunker"
    /\ outcome = "none"
    /\ Call(TextChunker_chunk_text(text, metadata), text, metadata)

NextOverlap == TextChunkerChunkGivenText

SpecOverlap == InitOverlap /\ [][NextOverlap]_vars

\* the chunk sequence the windower was given
Windowed == PreOverlapChunks(text).value

\* the windower has run on the call's chunks
HasWindowed == kind = "TextChunker" /\ HasReturned /\ text # <<>> /\ chunk_overlap > 0

\* the texts of the returned chunks
ChunkTexts == [i \in 1 .. Len(chunks) |-> chunks[i].text]

\* C14, as claimed: after the windower has run on chunks within chunk_size, every
\* chunk is at most chunk_size + chunk_overlap long, the joining spaces included.
C14_WindowedSizeBound ==
    LET pre == Windowed
    IN  (HasWindowed /\ ValidConfig /\ \A i \in 1 .. Len(pre) : Len(pre[i]) <= chunk_size)
            => \A i \in 1 .. Len(chunks) : Len(chunks[i].text) <= chunk_size + chunk_overlap

\* the joining spaces of the i-th of n windowed chunks
JoiningSpaces(i, n) == IF n <= 1 THEN 0 ELSE IF i = 1 \/ i = n THEN 1 ELSE 2

\* C14, amended: the windower lengthens a first or last chunk by at most
\* chunk_overlap + 1 characters and a middle chunk by at most chunk_overlap + 2, so
\* that chunks within chunk_size end within chunk_size + chunk_overlap + 1 and
\* chunk_size + chunk_overlap + 2.
C14_WindowedSizeBound_Amended ==
    HasWindowed
        => LET pre == Windowed
           IN  /\ Len(chunks) = Len(pre)
               /\ \A i \in 1 .. Len(chunks) :
                     /\ Len(chunks[i].text)
                            <= Len(pre[i]) + chunk_overlap + JoiningSpaces(i, Len(chunks))
                     /\ Len(pre[i]) <= chunk_size
                            => Len(chunks[i].text)
                                   <= chunk_size + chunk_overlap + JoiningSpaces(i, Len(chunks))

\* C14 witness: a first and a middle chunk that filled chunk_size have been
\* lengthened by chunk_overlap + 1 and chunk_overlap + 2.
C14_Witness ==
    /\ HasWindowed
    /\ ValidConfig
    /\ Len(chunks) = 3
    /\ Len(Windowed[1]) = chunk_size
    /\ Len(chunks[1].text) = chunk_size + chunk_overlap + 1
    /\ Len(Windowed[2]) = chunk_size
    /\ Len(chunks[2].text) = chunk_size + chunk_overlap + 2

\* C15, as claimed: overlap 2 on AAAA, BBBB, CCCC gives "AAAA BB", "AA BBBB CC" and
\* "CC CCCC".
C15_OverlapExample ==
    (HasWindowed /\ chunk_overlap = 2 /\ Windowed = <<AAAA, BBBB, CCCC>>)
        => ChunkTexts = << AAAA \o <<" ", "B", "B">>,
                           <<"A", "A", " ">> \o BBBB \o <<" ", "C", "C">>,
                           <<"C", "C", " ">> \o CCCC >>

\* C15, amended: overlap 2 on AAAA, BBBB, CCCC gives "AAAA BB", "A BBBB C" and
\* "BB CCCC".
C15_OverlapExample_Amended ==
    (HasWindowed /\ chunk_overlap = 2 /\ Windowed = <<AAAA, BBBB, CCCC>>)
        => ChunkTexts = << AAAA \o <<" ", "B", "B">>,
                           <<"A", " ">> \o BBBB \o <<" ", "C">>,
                           <<"B", "B", " ">> \o CCCC >>

\* C15 witness: the windower has run with overlap 2 on AAAA, BBBB, CCCC.
C15_Witness ==
    /\ HasWindowed
    /\ chunk_overlap = 2
    /\ Windowed = <<AAAA, BBBB, CCCC>>
    /\ Len(chunks) = 3

\* the first k and the last k characters of s, all of s when it has no more
FirstChars(s, k) == IF Len(s) <= k THEN s ELSE SubSeq(s, 1, k)

LastChars(s, k) == IF Len(s) <= k THEN s ELSE SubSeq(s, Len(s) - k + 1, Len(s))

\* C23: for n >= 2 pre-overlap chunks and overlap k > 0 the windower returns as
\* first chunk c[0], a space and the first k characters of c[1], and as last chunk
\* the last k characters of c[n-2], a space and c[n-1]; the windows are taken from
\* the chunks as they were before the windower ran, the whole neighbour when it
\* is shorter than k.
C23_FirstAndLastWindows ==
    LET pre == Windowed
        n == Len(pre)
    IN  (HasWindowed /\ n >= 2)
            => /\ Len(chunks) = n
               /\ chunks[1].text = pre[1] \o <<" ">> \o FirstChars(pre[2], chunk_overlap)
               /\ chunks[n].text = LastChars(pre[n - 1], chunk_overlap) \o <<" ">> \o pre[n]

\* C23 witness: the windower has run with overlap 3 on "x", AAAA, BBBB: the first
\* chunk took the first three characters of AAAA and the last chunk the last
\* three of AAAA as it was before it was given windows of its own.
C23_Witness ==
    /\ HasWindowed
    /\ chunk_overlap = 3
    /\ Windowed = << <<"x">>, AAAA, BBBB >>
    /\ chunks[1].text = <<"x", " ", "A", "A", "A">>
    /\ chunks[3].text = <<"A", "A", "A", " ">> \o BBBB

\* C24, as claimed: a middle chunk is given the last floor(overlap / 2) characters
\* of the previous chunk and the first floor(overlap / 2) characters of the next
\* one, overlap - 1 characters in all for an odd overlap.
C24_InteriorWindows ==
    LET pre == Windowed
    IN  (HasWindowed /\ Len(chunks) = Len(pre))
            => \A i \in 2 .. (Len(pre) - 1) :
                  chunks[i].text
                      = LastChars(pre[i - 1], chunk_overlap \div 2) \o <<" ">> \o pre[i]
                        \o <<" ">> \o FirstChars(pre[i + 1], chunk_overlap \div 2)

\* C24, amended: a middle chunk is given the last ceil(overlap / 2) characters of
\* the previous chunk and the first floor(overlap / 2) characters of the next one,
\* overlap characters in all when the neighbours are long enough.
C24_InteriorWindows_Amended ==
    LET pre == Windowed
    IN  (HasWindowed /\ Len(chunks) = Len(pre))
            => \A i \in 2 .. (Len(pre) - 1) :
                  /\ chunks[i].text
                         = LastChars(pre[i - 1], CeilDiv(chunk_overlap, 2)) \o <<" ">> \o pre[i]
                           \o <<" ">> \o FirstChars(pre[i + 1], chunk_overlap \div 2)
                  /\ (Len(pre[i - 1]) >= chunk_overlap /\ Len(pre[i + 1]) >= chunk_overlap)
                         => Len(chunks[i].text) = Len(pre[i]) + chunk_overlap + 2

\* C24 witness: with overlap 3 the middle chunk BBBB of AAAA, BBBB, CCCC has been
\* given two characters of AAAA and one of CCCC.
C24_Witness ==
    /\ HasWindowed
    /\ chunk_overlap = 3
    /\ Windowed = <<AAAA, BBBB, CCCC>>
    /\ chunks[2].text = <<"A", "A", " ">> \o BBBB \o <<" ", "C">>

\* C25: the overlap stage changes nothing when chunk_overlap <= 0 and when there
\* are 0 or 1 chunks: the chunk texts returned are the chunks as they were before
\* the stage.
C25_OverlapIdentity ==
    LET pre == Windowed
    IN  (kind = "TextChunker" /\ HasReturned /\ text # <<>>
            /\ (chunk_overlap <= 0 \/ Len(pre) <= 1))
            => ChunkTexts = pre

\* C25 witness: with a negative overlap the chunks AAAA, BBBB, CCCC have been
\* returned as they were.
C25_Witness ==
    /\ kind = "TextChunker"
    /\ HasReturned
    /\ chunk_overlap = -1
    /\ ChunkTexts = <<AAAA, BBBB, CCCC>>

(***************************************************************************)
(* Markdown documents: a MarkdownChunker is called on a document of lines. *)
(***************************************************************************)
\* the lines of a document: text, headings and the blank line
DocumentLines == MarkdownLines \cup { <<>> }

\* the documents of 1 to n lines
Documents(n) ==
    { Join(ls, <<"\n">>) : ls \in UNION { [1 .. k -> DocumentLines] : k \in 1 .. n } }

\* the metadata a caller passes: None, and keys named like the ones the
\* MarkdownChunker sets
MarkdownMetadatas ==
    { <<>>,
      <<[source |-> "doc", section_header |-> <<"x">>, section_level |-> 9,
         section_index |-> 9]>> }

InitMarkdown ==
    /\ kind = "MarkdownChunker"
    /\ chunk_size \in (1 .. MaxChunkSize) \cup {DefaultChunkSize}
    /\ chunk_overlap \in (0 .. MaxOverlap) \cup {DefaultChunkOverlap}
    /\ separator = DefaultSeparator
    /\ outcome = "none"
    /\ text \in Documents(MaxDocLines)
    /\ metadata \in MarkdownMetadatas
    /\ chunks = <<>>
    /\ NoObjects
    /\ NoPipeline
    /\ NoStore
    /\ NoEmbeddings

\* chunk_text is called with the text and the metadata of the state
MarkdownChunkerChunkGivenText ==
    /\ kind = "MarkdownChunker"
    /\ outcome = "none"
    /\ Call(MarkdownChunker_chunk_text(text, metadata), text, metadata)

NextMarkdown == MarkdownChunkerChunkGivenText

SpecMarkdown == InitMarkdown /\ [][NextMarkdown]_vars

\* the lines of the document
DocLines == Split(text, <<"\n">>)

\* the number of "#" the line starts with
HashCount(l) ==
    CHOOSE n \in 0 .. Len(l) :
        /\ \A i \in 1 .. n : l[i] = "#"
        /\ n = Len(l) \/ l[n + 1] # "#"

\* a heading line: 1 to 6 "#", then whitespace
IsHeadingLine(l) ==
    /\ HashCount(l) \in 1 .. 6
    /\ Len(l) > HashCount(l)
    /\ l[HashCount(l) + 1] \in Whitespace

\* the lines a section starts at: the first line and every heading line
SectionStarts(ls) == { j \in 1 .. Len(ls) : j = 1 \/ IsHeadingLine(ls[j]) }

\* the first and the last line of the k-th section (from 0) in document order
SectionStart(starts, k) ==
    CHOOSE j \in starts : Cardinality({ x \in starts : x < j }) = k

SectionEnd(ls, starts, k) ==
    IF k + 1 < Cardinality(starts) THEN SectionStart(starts, k + 1) - 1 ELSE Len(ls)

\* the header and the level of a section by its first line: those of the heading
\* line, "" and 0 for the content before the first heading
ExpectedHeader(l) == IF IsHeadingLine(l) THEN LStrip(DropFirst(l, HashCount(l))) ELSE <<>>

ExpectedLevel(l) == IF IsHeadingLine(l) THEN HashCount(l) ELSE 0

\* the text of the k-th section
SectionText(ls, starts, k) ==
    Join(SubSeq(ls, SectionStart(starts, k), SectionEnd(ls, starts, k)), <<"\n">>)

\* c occurs in t
IsSubstring(c, t) == \E p \in 1 .. (Len(t) - Len(c) + 1) : SubSeq(t, p, p + Len(c) - 1) = c

\* '# A' and '## B', each followed by content
TwoHeadings ==
    Join(<< <<"#", " ", "a">>, <<"a">>, <<"#", "#", " ", "a">>, <<"a">> >>, <<"\n">>)

\* C16: every chunk MarkdownChunker.chunk_text returns carries the header and the
\* level of the section its section_index names, its text is taken from that
\* section (where no overlap window is added), and section_index numbers
\* the sections from 0 in document order; '# A', content, '## B', content gives
\* the sections 0 and 1 with levels 1 and 2.
C16_SectionMetadata ==
    (kind = "MarkdownChunker" /\ HasReturned)
        => LET ls == DocLines
               starts == SectionStarts(ls)
           IN  /\ \A i \in 1 .. Len(chunks) :
                     LET k == chunks[i].metadata.section_index
                     IN  /\ k \in 0 .. (Cardinality(starts) - 1)
                         /\ chunks[i].metadata.section_header
                                = ExpectedHeader(ls[SectionStart(starts, k)])
                         /\ chunks[i].metadata.section_level
                                = ExpectedLevel(ls[SectionStart(starts, k)])
                         /\ chunk_overlap <= 0
                                => IsSubstring(chunks[i].text, SectionText(ls, starts, k))
               /\ \A i \in 1 .. (Len(chunks) - 1) :
                     chunks[i].metadata.section_index <= chunks[i + 1].metadata.section_index
               /\ text = TwoHeadings
                     => { <<chunks[i].metadata.section_index, chunks[i].metadata.section_level>> :
                            i \in 1 .. Len(chunks) } = { <<0, 1>>, <<1, 2>> }

\* C16 witness: '# A', content, '## B', content has been chunked under the default
\* sizes, one chunk per section, for a caller whose metadata has keys named
\* section_header, section_level and section_index.
C16_Witness ==
    /\ kind = "MarkdownChunker"
    /\ HasReturned
    /\ text = TwoHeadings
    /\ chunk_size = DefaultChunkSize
    /\ metadata # <<>>
    /\ Len(chunks) = 2
    /\ chunks[2].metadata.section_header = <<"a">>
    /\ chunks[2].metadata.section_level = 2

\* what the chunks of a section are to be: its text, its three keys and, for a
\* sub-chunk of a section longer than chunk_size, its index in the section
ExpectedChunk(t, first, k, sub, j) ==
    [text |-> t,
     section_header |-> ExpectedHeader(first),
     section_level |-> ExpectedLevel(first),
     section_index |-> k,
     sub |-> sub,
     chunk_index |-> j]

\* the chunks of the k-th section: the section text itself when it fits, else the
\* chunks the TextChunker makes of the section text as a document of its own
ExpectedSectionChunks(ls, starts, k) ==
    LET t == SectionText(ls, starts, k)
        first == ls[SectionStart(starts, k)]
    IN  IF Len(t) <= chunk_size
        THEN << ExpectedChunk(t, first, k, FALSE, 0) >>
        ELSE LET standalone == TextChunker_chunk_text(t, <<>>).value
             IN  [j \in 1 .. Len(standalone) |->
                     ExpectedChunk(standalone[j].text, first, k, TRUE,
                                   standalone[j].metadata.chunk_index)]

\* the chunks of the sections from the k-th on
RECURSIVE ExpectedChunksFrom(_, _, _)
ExpectedChunksFrom(ls, starts, k) ==
    IF k >= Cardinality(starts) THEN <<>>
    ELSE ExpectedSectionChunks(ls, starts, k) \o ExpectedChunksFrom(ls, starts, k + 1)

SectionKeys == {"section_header", "section_level", "section_index"}

\* C27: a section whose text (its lines joined by a newline) is within chunk_size
\* is emitted as exactly one chunk, the section text, with section_header,
\* section_level and section_index in its metadata; a longer section is chunked by
\* TextChunker.chunk_text as a document of its own, and each of its sub-chunks has
\* the section's three keys, its index within the section as chunk_index and the
\* length of its text as chunk_size.
C27_SectionChunks ==
    (kind = "MarkdownChunker" /\ ValidConfig /\ HasReturned)
        => LET ls == DocLines
               expected == ExpectedChunksFrom(ls, SectionStarts(ls), 0)
           IN  /\ Len(chunks) = Len(expected)
               /\ \A i \in 1 .. Len(chunks) :
                     LET m == chunks[i].metadata
                         e == expected[i]
                     IN  /\ chunks[i].text = e.text
                         /\ SectionKeys \subseteq DOMAIN m
                         /\ m.section_header = e.section_header
                         /\ m.section_level = e.section_level
                         /\ m.section_index = e.section_index
                         /\ e.sub => /\ {"chunk_index", "chunk_size"} \subseteq DOMAIN m
                                     /\ m.chunk_index = e.chunk_index
                                     /\ m.chunk_size = Len(chunks[i].text)

\* C27 witness: of "a", "# a", "a" under chunk_size 3 the leading section has been
\* emitted as one chunk and the section of the heading, five characters long, as
\* sub-chunks that carry the heading's keys.
C27_Witness ==
    /\ kind = "MarkdownChunker"
    /\ HasReturned
    /\ chunk_size = 3
    /\ chunk_overlap = 0
    /\ metadata # <<>>
    /\ text = Join(<< <<"a">>, <<"#", " ", "a">>, <<"a">> >>, <<"\n">>)
    /\ Len(chunks) >= 3
    /\ chunks[1].text = <<"a">>
    /\ chunks[1].metadata.section_index = 0
    /\ chunks[3].metadata.section_index = 1
    /\ chunks[3].metadata.section_header = <<"a">>
    /\ chunks[3].metadata.chunk_index = 1

\* every section of the document is within chunk_size
AllSectionsFit ==
    LET ls == DocLines
        starts == SectionStarts(ls)
    IN  \A k \in 0 .. (Cardinality(starts) - 1) : Len(SectionText(ls, starts, k)) <= chunk_size

\* C28: for a non-empty markdown text all of whose sections are within chunk_size,
\* the texts of the returned chunks, joined in order by a newline, are the input
\* text: no line is lost, repeated or moved.
C28_SectionsPartitionInput ==
    (kind = "MarkdownChunker" /\ HasReturned /\ text # <<>> /\ AllSectionsFit)
        => Join(ChunkTexts, <<"\n">>) = text

\* C28 witness: "a", a blank line and "# a" have been returned under chunk_size 3
\* as the two sections "a" with its blank line and "# a".
C28_Witness ==
    /\ kind = "MarkdownChunker"
    /\ HasReturned
    /\ chunk_size = 3
    /\ text = Join(<< <<"a">>, <<>>, <<"#", " ", "a">> >>, <<"\n">>)
    /\ Len(chunks) = 2
    /\ chunks[1].text = <<"a", "\n">>
    /\ chunks[2].text = <<"#", " ", "a">>

(***************************************************************************)
(* Heading detection: a MarkdownChunker of the default sizes, under which  *)
(* every section of a short document is one chunk, is called on a document *)
(* of lines that are or look like headings.                                *)
(***************************************************************************)
SixHashes == <<"#", "#", "#", "#", "#", "#">>

\* text, the blank line, headings of level 1 and 6, a heading with two spaces
\* and one with no text, seven markers, markers with no whitespace after them,
\* markers after a space
HeadingCandidates ==
    { <<"a">>,
      <<>>,
      <<"#", " ", "a">>,
      SixHashes \o <<" ", "a">>,
      <<"#", " ", " ", "a", " ", "b">>,
      <<"#", "#", " ">>,
      SixHashes \o <<"#", " ", "a">>,
      <<"#", "a">>,
      <<"#">>,
      <<" ", "#", " ", "a">> }

\* the documents of 1 to n such lines
HeadingDocuments(n) ==
    { Join(ls, <<"\n">>) : ls \in UNION { [1 .. k -> HeadingCandidates] : k \in 1 .. n } }

InitHeadings ==
    /\ kind = "MarkdownChunker"
    /\ chunk_size = DefaultChunkSize
    /\ chunk_overlap = DefaultChunkOverlap
    /\ separator = DefaultSeparator
    /\ outcome = "none"
    /\ text \in HeadingDocuments(MaxHeadingLines)
    /\ metadata \in MarkdownMetadatas
    /\ chunks = <<>>
    /\ NoObjects
    /\ NoPipeline
    /\ NoStore
    /\ NoEmbeddings

NextHeadings == MarkdownChunkerChunkGivenText

SpecHeadings == InitHeadings /\ [][NextHeadings]_vars

\* C26: a line starts a section exactly when it begins with 1 to 6 "#" followed at
\* once by whitespace; the section's level is the number of "#", its header the
\* rest of the line, and the heading line is its first line; a line of seven "#",
\* or with no whitespace after them, is content; the lines before the first
\* heading are a section of level 0 and header "".
C26_HeadingDetection ==
    (kind = "MarkdownChunker" /\ HasReturned /\ Len(text) <= chunk_size)
        => LET ls == DocLines
               starts == SectionStarts(ls)
           IN  /\ Len(chunks) = Cardinality(starts)
               /\ \A k \in 0 .. (Len(chunks) - 1) :
                     LET first == ls[SectionStart(starts, k)]
                         m == chunks[k + 1].metadata
                     IN  /\ chunks[k + 1].text = SectionText(ls, starts, k)
                         /\ m.section_index = k
                         /\ m.section_level \in 0 .. 6
                         /\ IsHeadingLine(first)
                                => /\ m.section_level = HashCount(first)
                                   /\ m.section_header
                                          = LStrip(DropFirst(first, HashCount(first)))
                                   /\ StartsWith(chunks[k + 1].text, first)
                         /\ ~IsHeadingLine(first)
                                => k = 0 /\ m.section_level = 0 /\ m.section_header = <<>>

\* C26 witness: a line of seven "#" and a line "#a" have been kept as the level 0
\* section before the heading of level 6 that follows them.
C26_Witness ==
    /\ kind = "MarkdownChunker"
    /\ HasReturned
    /\ text = Join(<< SixHashes \o <<"#", " ", "a">>, <<"#", "a">>, SixHashes \o <<" ", "a">> >>,
                   <<"\n">>)
    /\ Len(chunks) = 2
    /\ chunks[1].metadata.section_level = 0
    /\ chunks[1].text = SixHashes \o <<"#", " ", "a", "\n", "#", "a">>
    /\ chunks[2].metadata.section_level = 6
    /\ chunks[2].metadata.section_header = <<"a">>

(***************************************************************************)
(* Repeated calls: chunk_text is called again and again on one instance,   *)
(* by callers that pass None or one of their own dict objects. The dict    *)
(* objects are followed by identity.                                       *)
(***************************************************************************)
\* the callers' dict objects; the identity of an object is its index in heap
CallerObjects ==
    << [source |-> "doc"],
       [source |-> "doc", chunk_index |-> 7, total_chunks |-> 9, chunk_size |-> 99] >>

\* the texts the callers pass
CallerTexts ==
    { <<"a">>, <<"a", " ", "a">>, <<"#", " ", "a", "\n", "a">> }

\* the metadata argument of a call that passes the object ref, 0 for None
MetadataArgument(ref) == IF ref = 0 THEN <<>> ELSE <<heap[ref]>>

\* NewMetadataRefs with one dict built for the call and handed to all its chunks
NewMetadataRefs_Shared(n, h) == [i \in 1 .. n |-> Len(h) + 1]

\* the identities of the metadata objects of the n chunks of a call: the dict
\* display is evaluated once for every Chunk, and every evaluation makes a new
\* object
NewMetadataRefs(n, h) == [i \in 1 .. n |-> Len(h) + i]

\* the heap after the chunks cs were built with the metadata objects rs: an object
\* holds what was last written to it
HeapAfter(h, cs, rs) ==
    LET new == { rs[i] : i \in 1 .. Len(rs) } \ (1 .. Len(h))
    IN  [id \in 1 .. (Len(h) + Cardinality(new)) |->
            IF id <= Len(h) THEN h[id]
            ELSE LET last == CHOOSE i \in 1 .. Len(rs) :
                                 rs[i] = id /\ \A j \in (i + 1) .. Len(rs) : rs[j] # id
                 IN  cs[last].metadata]

InitCalls ==
    /\ kind \in Kinds
    /\ chunk_size \in 1 .. MaxChunkSize
    /\ chunk_overlap \in 0 .. 1
    /\ separator = DefaultSeparator
    /\ outcome = "none"
    /\ text = <<>>
    /\ metadata = <<>>
    /\ chunks = <<>>
    /\ heap = CallerObjects
    /\ refs = <<>>
    /\ history = <<>>
    /\ NoPipeline
    /\ NoStore
    /\ NoEmbeddings

\* one more call of chunk_text on the instance
CallAgain(result, t, ref) ==
    LET rs == NewMetadataRefs(Len(result.value), heap)
    IN  /\ text' = t
        /\ metadata' = MetadataArgument(ref)
        /\ outcome' = IF result.raised THEN "raised" ELSE "returned"
        /\ chunks' = result.value
        /\ refs' = rs
        /\ heap' = HeapAfter(heap, result.value, rs)
        /\ history' = Append(history, [text |-> t, metadata_ref |-> ref,
                                       metadata |-> MetadataArgument(ref),
                                       chunks |-> result.value, refs |-> rs])
        /\ UNCHANGED <<kind, chunk_size, chunk_overlap, separator>>
        /\ UNCHANGED <<pipelineVars, storeVars, embedVars>>

TextChunkerChunkTextAgain ==
    /\ kind = "TextChunker"
    /\ Len(history) < MaxCalls
    /\ \E t \in CallerTexts, ref \in 0 .. Len(CallerObjects) :
           CallAgain(TextChunker_chunk_text(t, MetadataArgument(ref)), t, ref)

MarkdownChunkerChunkTextAgain ==
    /\ kind = "MarkdownChunker"
    /\ Len(history) < MaxCalls
    /\ \E t \in CallerTexts, ref \in 0 .. Len(CallerObjects) :
           CallAgain(MarkdownChunker_chunk_text(t, MetadataArgument(ref)), t, ref)

NextCalls == TextChunkerChunkTextAgain \/ MarkdownChunkerChunkTextAgain

SpecCalls == InitCalls /\ [][NextCalls]_vars

\* the callers' objects are as they were, every chunk of every call has a metadata
\* object of its own that is none of the callers' and holds the chunk's metadata,
\* and two calls with equal arguments returned equal chunks
PureSoFar ==
    /\ \A id \in 1 .. Len(CallerObjects) : heap[id] = CallerObjects[id]
    /\ \A c \in 1 .. Len(history) : \A i \in 1 .. Len(history[c].refs) :
          /\ history[c].refs[i] > Len(CallerObjects)
          /\ heap[history[c].refs[i]] = history[c].chunks[i].metadata
          /\ \A d \in 1 .. Len(history) : \A j \in 1 .. Len(history[d].refs) :
                (c # d \/ i # j) => history[c].refs[i] # history[d].refs[j]
    /\ \A c, d \in 1 .. Len(history) :
          (history[c].text = history[d].text /\ history[c].metadata = history[d].metadata)
              => history[c].chunks = history[d].chunks

\* a step leaves the configuration of the instance and every object that was
\* alive as they were
PureStep ==
    /\ UNCHANGED <<kind, chunk_size, chunk_overlap, separator>>
    /\ \A id \in 1 .. Len(heap) : heap'[id] = heap[id]

PipelineKinds == {"LocalRAGPipeline", "RAGPipeline"}

\* the documents, the metadata mappings and the document types a caller passes
PipelineDocuments == { <<>>, <<"a">>, <<"#", " ", "a", "\n", "a">> }

PipelineMetadata == { EmptyDict, [source |-> "doc"] }

DocumentTypes == {"text", "markdown", "pdf"}

\* the lists of up to n elements of S
ListsUpTo(S, n) == UNION { [1 .. k -> S] : k \in 0 .. n }

\* chunker = self.markdown_chunker if document_type == "markdown" else
\* self.text_chunker
ChosenChunker(dt) == IF dt = "markdown" THEN "MarkdownChunker" ELSE "TextChunker"

\* chunker.chunk_text(doc, doc_metadata)
ChunkerChunkText(chunker, doc, doc_metadata) ==
    IF chunker = "MarkdownChunker"
    THEN MarkdownChunker_chunk_text(doc, <<doc_metadata>>)
    ELSE TextChunker_chunk_text(doc, <<doc_metadata>>)

\* metadatas or [{} for _ in documents]: None and the empty list are replaced
MetadatasOrDefault(docs, ms) ==
    IF ms = <<>> \/ ms[1] = <<>> THEN [i \in 1 .. Len(docs) |-> EmptyDict] ELSE ms[1]

\* {**meta, "document_index": i, "document_type": document_type}
DocMetadata(meta, i, dt) == Merge(meta, [document_index |-> i, document_type |-> dt])

\* the calls and the chunks so far, and whether chunk_text raised
Chunked(raised, calls, all_chunks) ==
    [raised |-> raised, calls |-> calls, all_chunks |-> all_chunks]

\* the loop over zip(documents, metadatas) from the i-th pair (from 0) on: zip
\* stops at the end of the shorter list
RECURSIVE ChunkDocuments(_, _, _, _, _, _)
\* the rest of the loop once chunk_text, called as call, has ended as r
ChunkNext(docs, ms, dt, i, calls, all_chunks, call, r) ==
    IF r.raised
    THEN Chunked(TRUE, Append(calls, call), all_chunks)
    ELSE ChunkDocuments(docs, ms, dt, i + 1, Append(calls, call), all_chunks \o r.value)

ChunkDocuments(docs, ms, dt, i, calls, all_chunks) ==
    IF i >= Len(docs) \/ i >= Len(ms)
    THEN Chunked(FALSE, calls, all_chunks)
    ELSE ChunkNext(docs, ms, dt, i, calls, all_chunks,
                   [chunker |-> ChosenChunker(dt), text |-> docs[i + 1],
                    metadata |-> DocMetadata(ms[i + 1], i, dt)],
                   ChunkerChunkText(ChosenChunker(dt), docs[i + 1],
                                    DocMetadata(ms[i + 1], i, dt)))

\* self.vector_store.add_documents(texts=chunk_texts, metadatas=chunk_metadatas)
StoreCall(all_chunks) ==
    [texts |-> [i \in 1 .. Len(all_chunks) |-> all_chunks[i].text],
     metadatas |-> [i \in 1 .. Len(all_chunks) |-> all_chunks[i].metadata]]

\* what add_documents does once the loop over the documents has ended as r
Forward(r) ==
    /\ chunker_calls' = r.calls
    /\ outcome' = IF r.raised THEN "raised" ELSE "returned"
    /\ store_calls' = IF r.raised THEN store_calls ELSE <<StoreCall(r.all_chunks)>>
    /\ added' = IF r.raised THEN added ELSE <<Len(r.all_chunks)>>

InitPipeline ==
    /\ kind \in PipelineKinds
    /\ chunk_size \in (0 .. MaxChunkSize) \cup {DefaultChunkSize}
    /\ chunk_overlap \in {0, DefaultChunkOverlap}
    /\ separator = DefaultSeparator
    /\ outcome = "none"
    /\ text = <<>>
    /\ metadata = <<>>
    /\ chunks = <<>>
    /\ NoObjects
    /\ documents \in ListsUpTo(PipelineDocuments, MaxDocs)
    /\ metadatas \in {<<>>} \cup { <<ms>> : ms \in ListsUpTo(PipelineMetadata, MaxDocs) }
    /\ document_type \in DocumentTypes
    /\ chunker_calls = <<>>
    /\ store_calls = <<>>
    /\ added = <<>>
    /\ NoStore
    /\ NoEmbeddings

\* add_documents(documents, metadatas, document_type)
add_documents ==
    /\ outcome = "none"
    /\ IF documents = <<>>
       THEN /\ outcome' = "returned"
            /\ added' = <<0>>
            /\ UNCHANGED <<chunker_calls, store_calls>>
       ELSE Forward(ChunkDocuments(documents, MetadatasOrDefault(documents, metadatas),
                                   document_type, 0, <<>>, <<>>))
    /\ UNCHANGED <<kind, chunk_size, chunk_overlap, separator, text, metadata, chunks>>
    /\ UNCHANGED <<objectVars, documents, metadatas, document_type, storeVars, embedVars>>

LocalRAGPipelineAddDocuments == kind = "LocalRAGPipeline" /\ add_documents

RAGPipelineAddDocuments == kind = "RAGPipeline" /\ add_documents

NextPipeline == LocalRAGPipelineAddDocuments \/ RAGPipelineAddDocuments

SpecPipeline == InitPipeline /\ [][NextPipeline]_vars

\* add_documents has returned, under a configuration the documentation asks for
\* and for documents none of which is empty
PipelineReturned ==
    /\ kind \in PipelineKinds
    /\ HasReturned
    /\ ValidConfig
    /\ \A i \in 1 .. Len(documents) : documents[i] # <<>>

\* C19: "markdown" routes every document of the call to the MarkdownChunker and
\* "text" routes every document to the TextChunker: chunk_text is called once for
\* every document, in order, on the chunker the flag selects.
C19_DocumentTypeRouting ==
    (PipelineReturned /\ document_type \in {"text", "markdown"})
        => /\ Len(chunker_calls) = Len(documents)
           /\ \A i \in 1 .. Len(chunker_calls) :
                 /\ chunker_calls[i].text = documents[i]
                 /\ chunker_calls[i].chunker
                        = (IF document_type = "markdown" THEN "MarkdownChunker"
                                                         ELSE "TextChunker")

\* the number of chunks the selected chunker makes of the documents from the i-th on
RECURSIVE ChunksOfDocuments(_)
ChunksOfDocuments(i) ==
    IF i > Len(documents) THEN 0
    ELSE Len(ChunkerChunkText(ChosenChunker(document_type), documents[i], EmptyDict).value)
         + ChunksOfDocuments(i + 1)

\* the number of (text, metadata) pairs forwarded to the vector store
RECURSIVE PairsForwarded(_)
PairsForwarded(k) ==
    IF k > Len(store_calls) THEN 0
    ELSE Len(store_calls[k].texts) + PairsForwarded(k + 1)

\* C20: whatever the length of metadatas, add_documents returns the number of
\* chunks of all the documents, which is the number of (text, metadata) pairs it
\* forwarded to the vector store; for an empty list of documents it returns 0
\* without calling the vector store.
C20_ChunkCount ==
    PipelineReturned
        => /\ added = <<ChunksOfDocuments(1)>>
           /\ added = <<PairsForwarded(1)>>
           /\ \A k \in 1 .. Len(store_calls) :
                 Len(store_calls[k].metadatas) = Len(store_calls[k].texts)
           /\ documents = <<>> => added = <<0>> /\ store_calls = <<>>

(***************************************************************************)
(* The LanceDB vector store of python_example/src/vector_store_lancedb.py. *)
(* The database directory outlives the store instances: db is the table of *)
(* the collection (<<>> when the database has none), table is the handle   *)
(* self.table of the live instance. The embedding vectors and the metadata *)
(* of the rows are left out; a row is its id and its text.                 *)
(***************************************************************************)
\* batch_size of add_documents
BatchSize == 100

\* the texts callers add, and the ids: the caller's, or the uuid4 values made for
\* the call
StoreTexts == {"a", "b"}
StoreIds == {"u1", "u2"}

Row(id, t) == [id |-> id, text |-> t]

\* len(self.table), and 0 when the database has no table
RowCount(d) == IF d = <<>> THEN 0 ELSE Len(d[1])

\* the shorter of two lengths: zip ends with the shorter list
Shorter(a, b) == IF a <= b THEN a ELSE b

\* s[i:i + BatchSize] for 0 <= i
BatchOf(s, i) == TakeFirst(DropFirst(s, i), BatchSize)

\* db.create_table(name, data) raises when the database has a table of the name
CreateTableRaises(d) == d # <<>>

\* what a call on the store leaves: the handle, the database, what it returned,
\* whether it raised and whether it called create_table for a table that exists
StoreResult(raised, t, d, result, created_existing) ==
    [raised |-> raised, table |-> t, db |-> d, result |-> result,
     created_existing |-> created_existing]

\* _ensure_table: the handle after it
EnsureTable(t, d) == IF t = "None" /\ d # <<>> THEN "open" ELSE t

\* the loop over the batches of add_documents from the text i (from 0) on
RECURSIVE AddBatches(_, _, _, _, _, _)
AddBatches(texts, ids, i, t, d, all_ids) ==
    IF i >= Len(texts) THEN StoreResult(FALSE, t, d, all_ids, FALSE)
    ELSE LET batch_texts == BatchOf(texts, i)
             batch_ids == BatchOf(ids, i)
             data == [k \in 1 .. Shorter(Len(batch_texts), Len(batch_ids)) |->
                         Row(batch_ids[k], batch_texts[k])]
         IN  IF t = "None"
             THEN IF CreateTableRaises(d)
                  THEN StoreResult(TRUE, t, d, all_ids, TRUE)
                  ELSE AddBatches(texts, ids, i + BatchSize, "open", <<data>>,
                                  all_ids \o batch_ids)
             ELSE AddBatches(texts, ids, i + BatchSize, t, <<d[1] \o data>>,
                             all_ids \o batch_ids)

\* add_documents(texts, ids=ids)
StoreAddDocuments(texts, ids, t, d) ==
    IF texts = <<>> THEN StoreResult(FALSE, t, d, <<>>, FALSE)
    ELSE AddBatches(texts, ids, 0, t, d, <<>>)

\* search(query, top_k): the texts of up to top_k rows (the order of the rows by
\* distance is left out)
StoreSearch(top_k, t, d) ==
    LET ensured == EnsureTable(t, d)
    IN  IF ensured = "None" THEN StoreResult(FALSE, ensured, d, <<>>, FALSE)
        ELSE StoreResult(FALSE, ensured, d,
                         [k \in 1 .. Shorter(top_k, Len(d[1])) |-> d[1][k].text], FALSE)

\* get_document_count()
StoreGetDocumentCount(t, d) ==
    LET ensured == EnsureTable(t, d)
    IN  StoreResult(FALSE, ensured, d, IF ensured = "None" THEN 0 ELSE Len(d[1]), FALSE)

\* clear()
StoreClear(t, d) == StoreResult(FALSE, "None", <<>>, <<>>, FALSE)

\* a database with no table, or with the table an earlier instance left
PersistedTables == { <<>>, << <<Row("u1", "a")>> >> }

InitStore ==
    /\ kind = "LanceDBVectorStore"
    /\ chunk_size = DefaultChunkSize
    /\ chunk_overlap = DefaultChunkOverlap
    /\ separator = DefaultSeparator
    /\ outcome = "none"
    /\ text = <<>>
    /\ metadata = <<>>
    /\ chunks = <<>>
    /\ NoObjects
    /\ NoPipeline
    /\ db \in PersistedTables
    /\ table = "None"
    /\ store_call = <<>>
    /\ NoEmbeddings

\* a call op on the store, with the texts and ids it was given, has ended as r
StoreCalled(op, texts, ids, r) ==
    /\ table' = r.table
    /\ db' = r.db
    /\ outcome' = IF r.raised THEN "raised" ELSE "returned"
    /\ store_call' = << [op |-> op, texts |-> texts, ids |-> ids, raised |-> r.raised,
                         result |-> r.result, created_existing |-> r.created_existing,
                         count_before |-> RowCount(db)] >>
    /\ UNCHANGED <<kind, chunk_size, chunk_overlap, separator, text, metadata, chunks>>
    /\ UNCHANGED <<objectVars, pipelineVars, embedVars>>

LanceDBAddDocuments ==
    /\ kind = "LanceDBVectorStore"
    /\ \E texts \in ListsUpTo(StoreTexts, MaxTexts) :
           /\ RowCount(db) + Len(texts) <= MaxRows
           /\ \E ids \in [1 .. Len(texts) -> StoreIds] :
                  StoreCalled("add_documents", texts, ids,
                              StoreAddDocuments(texts, ids, table, db))

LanceDBSearch ==
    /\ kind = "LanceDBVectorStore"
    /\ \E top_k \in {1, 5} : StoreCalled("search", <<>>, <<>>, StoreSearch(top_k, table, db))

LanceDBGetDocumentCount ==
    /\ kind = "LanceDBVectorStore"
    /\ StoreCalled("get_document_count", <<>>, <<>>, StoreGetDocumentCount(table, db))

LanceDBClear ==
    /\ kind = "LanceDBVectorStore"
    /\ StoreCalled("clear", <<>>, <<>>, StoreClear(table, db))

\* LanceDBVectorStore(...): a new instance on the same database directory
LanceDBVectorStoreInit ==
    /\ kind = "LanceDBVectorStore"
    /\ StoreCalled("__init__", <<>>, <<>>, StoreResult(FALSE, "None", db, <<>>, FALSE))

NextStore ==
    \/ LanceDBAddDocuments
    \/ LanceDBSearch
    \/ LanceDBGetDocumentCount
    \/ LanceDBClear
    \/ LanceDBVectorStoreInit

SpecStore == InitStore /\ [][NextStore]_vars

\* the last rows of the table are the texts of the call with its ids, in order
LastRowsAre(texts, ids) ==
    /\ db # <<>>
    /\ Len(db[1]) >= Len(texts)
    /\ \A k \in 1 .. Len(texts) :
          db[1][Len(db[1]) - Len(texts) + k] = Row(ids[k], texts[k])

\* C29: after any calls of add_documents, search, get_document_count and clear,
\* also on a new store instance over a table an earlier instance left,
\* add_documents of n >= 1 texts returns its n ids in input order and adds exactly
\* n rows, and never calls create_table for a table that exists; after clear the
\* count is 0 and search returns nothing.
C29_StoreAddDocuments ==
    store_call # <<>>
        => LET c == store_call[1]
           IN  /\ (c.op = "add_documents" /\ Len(c.texts) >= 1)
                      => /\ ~c.raised
                         /\ ~c.created_existing
                         /\ c.result = c.ids
                         /\ RowCount(db) = c.count_before + Len(c.texts)
                         /\ LastRowsAre(c.texts, c.ids)
               /\ c.op = "clear" => RowCount(db) = 0
               /\ c.op = "get_document_count" => c.result = RowCount(db)
               /\ (c.op = "search" /\ RowCount(db) = 0) => c.result = <<>>

(***************************************************************************)
(* OllamaEmbeddings of python_example/src/embeddings_local.py: one         *)
(* instance, its cache directory and the provider it posts to. A vector is *)
(* a sequence of numbers; md5 is taken to be injective, so that a cache    *)
(* key is the string it is the digest of.                                  *)
(***************************************************************************)
\* the length of the fallback vector
FallbackDimension == 768

\* [0.0] * 768
ZeroEmbedding == [i \in 1 .. FallbackDimension |-> 0]

\* the texts callers embed: the empty string and a word
EmbedTexts == { <<>>, <<"a">> }

\* the embeddings the provider answers a prompt with when it succeeds: the empty
\* vector for the empty prompt, a vector of the model for any other
ProviderEmbeddings(prompt) == IF prompt = <<>> THEN { <<>> } ELSE { <<1>>, <<2>> }

\* what requests.post(...) ends as: a response of status 200 with an embedding, a
\* response of another status, or an exception
Response(raised, status, embedding) ==
    [raised |-> raised, status |-> status, embedding |-> embedding]

Responses(prompt) ==
    { Response(FALSE, 200, e) : e \in ProviderEmbeddings(prompt) }
        \cup { Response(FALSE, 500, <<>>), Response(TRUE, 0, <<>>) }

\* _get_cache_key: the digest of f"{self.model}:{text}"
CacheKey(m, t) == m \o <<":">> \o t

\* _load_from_cache: None (<<>>) when there is no file of the key
LoadFromCache(c, key) == IF key \in DOMAIN c THEN <<c[key]>> ELSE <<>>

\* _save_to_cache
SaveToCache(c, key, embedding) ==
    [k \in DOMAIN c \cup {key} |-> IF k = key THEN embedding ELSE c[k]]

\* `if cached:` - None and the empty list are false
IsTrue(cached) == cached # <<>> /\ cached[1] # <<>>

\* what a call on the embedder leaves: the vectors it returned, the cache, and
\* the requests it posted with what they ended as
Embedded(result, c, requests) == [result |-> result, cache |-> c, requests |-> requests]

Request(prompt, response) == [prompt |-> prompt, response |-> response]

\* the loop of embed_documents over the texts that were not answered from the
\* cache, from the i-th text on; rs[i] is what the request for the i-th text ends as
RECURSIVE EmbedUncached(_, _, _, _, _, _, _)
EmbedUncached(m, texts, rs, i, embeddings, c, requests) ==
    IF i > Len(texts) THEN Embedded(embeddings, c, requests)
    ELSE IF embeddings[i] # <<>>
    THEN EmbedUncached(m, texts, rs, i + 1, embeddings, c, requests)
    ELSE IF ~rs[i].raised /\ rs[i].status = 200
    THEN EmbedUncached(m, texts, rs, i + 1,
                       [embeddings EXCEPT ![i] = <<rs[i].embedding>>],
                       SaveToCache(c, CacheKey(m, texts[i]), rs[i].embedding),
                       Append(requests, Request(texts[i], rs[i])))
    ELSE EmbedUncached(m, texts, rs, i + 1,
                       [embeddings EXCEPT ![i] = <<ZeroEmbedding>>],
                       c,
                       Append(requests, Request(texts[i], rs[i])))

\* embed_documents(texts): the first loop answers from the cache and leaves None
\* (<<>>) for the others
embed_documents(m, texts, rs, c) ==
    IF texts = <<>> THEN Embedded(<<>>, c, <<>>)
    ELSE LET checked == [i \in 1 .. Len(texts) |->
                            LET cached == LoadFromCache(c, CacheKey(m, texts[i]))
                            IN  IF IsTrue(cached) THEN cached ELSE <<>>]
             done == EmbedUncached(m, texts, rs, 1, checked, c, <<>>)
         IN  Embedded([i \in 1 .. Len(texts) |-> done.result[i][1]], done.cache, done.requests)

\* embed_query(query); r is what the request ends as
embed_query(m, query, r, c) ==
    LET cache_key == CacheKey(m, query)
        cached == LoadFromCache(c, cache_key)
    IN  IF IsTrue(cached) THEN Embedded(cached[1], c, <<>>)
        ELSE IF ~r.raised /\ r.status = 200
        THEN Embedded(r.embedding, SaveToCache(c, cache_key, r.embedding),
                      <<Request(query, r)>>)
        ELSE Embedded(ZeroEmbedding, c, <<Request(query, r)>>)

InitEmbeddings ==
    /\ kind = "OllamaEmbeddings"
    /\ chunk_size = DefaultChunkSize
    /\ chunk_overlap = DefaultChunkOverlap
    /\ separator = DefaultSeparator
    /\ outcome = "none"
    /\ text = <<>>
    /\ metadata = <<>>
    /\ chunks = <<>>
    /\ NoObjects
    /\ NoPipeline
    /\ NoStore
    /\ model = <<"m">>
    /\ cache = <<>>
    /\ provided = {}
    /\ embed_call = <<>>

\* the embeddings the requests were answered with
Answered(requests) ==
    { [prompt |-> requests[i].prompt, embedding |-> requests[i].response.embedding] :
        i \in { j \in 1 .. Len(requests) :
                    ~requests[j].response.raised /\ requests[j].response.status = 200 } }

\* a call op on the embedder, for the texts, has ended as r
EmbedCalled(op, texts, r) ==
    /\ cache' = r.cache
    /\ provided' = provided \cup Answered(r.requests)
    /\ outcome' = "returned"
    /\ embed_call' = << [op |-> op, texts |-> texts, result |-> r.result,
                         requests |-> r.requests, cache_before |-> cache] >>
    /\ UNCHANGED <<kind, chunk_size, chunk_overlap, separator, text, metadata, chunks>>
    /\ UNCHANGED <<objectVars, pipelineVars, storeVars, model>>

\* the ways the requests for the texts can end, one for each text
ResponsesFor(texts) ==
    { rs \in [1 .. Len(texts) -> UNION { Responses(t) : t \in EmbedTexts }] :
        \A i \in 1 .. Len(texts) : rs[i] \in Responses(texts[i]) }

OllamaEmbedDocuments ==
    /\ kind = "OllamaEmbeddings"
    /\ \E texts \in ListsUpTo(EmbedTexts, MaxEmbedTexts) :
           \E rs \in ResponsesFor(texts) :
               EmbedCalled("embed_documents", texts, embed_documents(model, texts, rs, cache))

OllamaEmbedQuery ==
    /\ kind = "OllamaEmbeddings"
    /\ \E query \in EmbedTexts :
           \E response \in Responses(query) :
               EmbedCalled("embed_query", <<query>>, embed_query(model, query, response, cache))

NextEmbeddings == OllamaEmbedDocuments \/ OllamaEmbedQuery

SpecEmbeddings == InitEmbeddings /\ [][NextEmbeddings]_vars

\* the prompts of the requests of the last call
Prompts(requests) == { requests[i].prompt : i \in 1 .. Len(requests) }

\* the vector the call c returned for its i-th text
ResultFor(c, i) == IF c.op = "embed_query" THEN c.result ELSE c.result[i]

\* C30: after any calls of embed_documents and embed_query, with requests failing
\* at will, every cache entry holds a vector the provider answered its text with,
\* never the zero vector of a failed request; a text without a cache entry is
\* requested from the provider, and a text with a cache entry is answered from
\* the cache with no request.
C30_CacheHoldsProvided ==
    /\ \A key \in DOMAIN cache :
          /\ cache[key] # ZeroEmbedding
          /\ \E t \in EmbedTexts :
                /\ key = CacheKey(model, t)
                /\ [prompt |-> t, embedding |-> cache[key]] \in provided
    /\ embed_call # <<>>
          => LET c == embed_call[1]
             IN  \A i \in 1 .. Len(c.texts) :
                     LET key == CacheKey(model, c.texts[i])
                     IN  IF key \in DOMAIN c.cache_before
                         THEN /\ c.texts[i] \notin Prompts(c.requests)
                              /\ ResultFor(c, i) = c.cache_before[key]
                         ELSE c.texts[i] \in Prompts(c.requests)

====
